---- MODULE Spec2Model ----
(***************************************************************************)
(* A model of xwmt's water-mass transformation pipeline:                   *)
(*   src/xwmt/compute.py  hlamdot_from_Jlam, calc_hlamdot_tendency         *)
(*   src/xwmt/wmt.py      class WaterMassTransformations                   *)
(*                                                                         *)
(* Python values are modelled as tagged records ([kind |-> ...]): None, a  *)
(* raised exception, a DataArray, a Dataset, a dict.  A method is an       *)
(* operator that returns its outcome (a value or a raised exception); an   *)
(* exception raised by a callee propagates through every caller.  Floating *)
(* point cells are exact rationals extended with NaN and +-Inf.            *)
(***************************************************************************)
EXTENDS Integers, Sequences, FiniteSets, TLC

VARIABLES ds, obj, call, result

vars == <<ds, obj, call, result>>

(***************************************************************************)
(* Python values                                                           *)
(***************************************************************************)
None == [kind |-> "None"]

Raise(exc, at) == [kind |-> "raise", exc |-> exc, at |-> at]

IsNone(v) == v.kind = "None"

IsRaise(v) == v.kind = "raise"

\* xarray.DataArray: a named field; data is one column of cells (along Z or
\* along the bins), scale the sequence of symbolic constants (cp, rho_ref,
\* alpha, ...) the cells were multiplied or divided by, in order.
DataArray(name, data, scale) == [kind |-> "DataArray", name |-> name, data |-> data, scale |-> scale]

IsDataArray(v) == v.kind = "DataArray"

\* Arithmetic of a field with a constant or a coefficient field.
Scaled(da, factor) == [da EXCEPT !.scale = Append(@, factor)]

\* A Python str where None is possible too.
Str(s) == [kind |-> "str", s |-> s]

\* xarray.Dataset used as a result container: variable name -> DataArray.
Dataset(fields) == [kind |-> "Dataset", fields |-> fields]

EmptyMap == [n \in {} |-> None]

\* Body applied to the value of x, which is computed once: the way a Python
\* local holds the value of the expression assigned to it.
Bind(x, Body(_)) == CHOOSE r \in {Body(y) : y \in {x}} : TRUE

(***************************************************************************)
(* IEEE-754 cells: a finite rational n/d (d > 0, lowest terms), NaN, +-Inf *)
(***************************************************************************)
RECURSIVE Gcd(_, _)
Gcd(a, b) == IF b = 0 THEN a ELSE Gcd(b, a % b)

Abs(x) == IF x < 0 THEN -x ELSE x

Sign(x) == IF x < 0 THEN -1 ELSE IF x > 0 THEN 1 ELSE 0

NaN == [t |-> "nan", n |-> 0, d |-> 1]

Inf(s) == [t |-> "inf", n |-> s, d |-> 1]

Fin(n, d) ==
    LET g == Gcd(Abs(n), Abs(d))
        s == IF d < 0 THEN -1 ELSE 1
    IN [t |-> "fin", n |-> (s * n) \div g, d |-> (s * d) \div g]

Num(n) == Fin(n, 1)

IsFin(x) == x.t = "fin"

IsZero(x) == x.t = "fin" /\ x.n = 0

FNeg(x) ==
    CASE x.t = "fin" -> Fin(-x.n, x.d)
      [] x.t = "inf" -> Inf(-x.n)
      [] OTHER -> NaN

FAdd(x, y) ==
    CASE x.t = "nan" \/ y.t = "nan" -> NaN
      [] x.t = "inf" /\ y.t = "inf" -> IF x.n = y.n THEN x ELSE NaN
      [] x.t = "inf" -> x
      [] y.t = "inf" -> y
      [] OTHER -> Fin(x.n * y.d + y.n * x.d, x.d * y.d)

FSub(x, y) == FAdd(x, FNeg(y))

FMul(x, y) ==
    CASE x.t = "nan" \/ y.t = "nan" -> NaN
      [] x.t = "inf" /\ y.t = "inf" -> Inf(x.n * y.n)
      [] x.t = "inf" -> IF y.n = 0 THEN NaN ELSE Inf(x.n * Sign(y.n))
      [] y.t = "inf" -> IF x.n = 0 THEN NaN ELSE Inf(y.n * Sign(x.n))
      [] OTHER -> Fin(x.n * y.n, x.d * y.d)

\* numpy true division: x/0 is +-Inf for x # 0 and NaN for 0/0.
FDiv(x, y) ==
    CASE x.t = "nan" \/ y.t = "nan" -> NaN
      [] x.t = "inf" /\ y.t = "inf" -> NaN
      [] x.t = "inf" -> Inf(x.n * (IF y.n < 0 THEN -1 ELSE 1))
      [] y.t = "inf" -> Num(0)
      [] y.n = 0 -> IF x.n = 0 THEN NaN ELSE Inf(Sign(x.n))
      [] OTHER -> Fin(x.n * y.d, x.d * y.n)

\* xarray .fillna(0.): only NaN is filled, +-Inf is kept.
fillna0(x) == IF x.t = "nan" THEN Num(0) ELSE x

\* xarray .where(h != 0.): cells failing the condition become NaN.
where_nonzero(x) == IF IsZero(x) THEN NaN ELSE x

RECURSIVE FSum(_)
FSum(s) == IF s = <<>> THEN Num(0) ELSE FAdd(Head(s), FSum(Tail(s)))

(***************************************************************************)
(* Bounds of the model                                                     *)
(***************************************************************************)
\* Number of vertical layers of a column (cell centres); NLev + 1 interfaces.
NLev == 2

\* Largest magnitude of an input cell (flux, thickness, tendency).
MaxVal == 1

Levels == 1..NLev

Outer == 1..(NLev + 1)

(***************************************************************************)
(* The grid collaborator (xgcm.Grid), as far as compute.py uses it         *)
(***************************************************************************)
\* A grid: whether the object has a Z_metrics attribute, and the layer
\* thickness at the cell centres (Z_metrics["center"], or the Z metric that
\* get_metric returns).
Grid(has_Z_metrics, h) == [Z_metrics |-> has_Z_metrics, h |-> h]

\* grid.diff(Jlam, "Z"): from the NLev + 1 interfaces to the NLev centres.
grid_diff(J) == [k \in 1..(Len(J) - 1) |-> FSub(J[k + 1], J[k])]

(***************************************************************************)
(* compute.py                                                              *)
(***************************************************************************)
\* hlamdot_from_Jlam, lines 8-22, on one column.
hlamdot_from_Jlam(grid, Jlam, dim) ==
    LET dJlam == [k \in DOMAIN grid_diff(Jlam) |-> FNeg(grid_diff(Jlam)[k])]
        h == IF grid.Z_metrics
             THEN [k \in DOMAIN grid.h |-> where_nonzero(grid.h[k])]
             ELSE grid.h
        lamdot == [k \in DOMAIN dJlam |-> FDiv(dJlam[k], h[k])]
        hlamdot == [k \in DOMAIN dJlam |-> FMul(fillna0(h[k]), fillna0(lamdot[k]))]
    IN hlamdot

\* calc_hlamdot_tendency, lines 24-37.  A record carrying neither key falls
\* off the end of the function: Python returns None.
calc_hlamdot_tendency(grid, datadict) ==
    IF "layer_integrated_tendency" \in DOMAIN datadict.d
    THEN datadict.d["layer_integrated_tendency"]
    ELSE IF "interfacial_flux" \in DOMAIN datadict.d
    THEN DataArray("hlamdot", hlamdot_from_Jlam(grid, datadict.d["interfacial_flux"].data, "Z"), <<>>)
    ELSE None

Dict(d) == [kind |-> "dict", d |-> d]

(***************************************************************************)
(* wmt.py: the taxonomies (class attributes, lines 57-85)                  *)
(***************************************************************************)
\* dict.get(key, None)
Get(dict, key) == IF key \in DOMAIN dict THEN dict[key] ELSE None

terms_dict == [heat |-> Str("thetao"), salt |-> Str("so")]

processes_heat_dict ==
    [Eulerian_tendency |-> Str("opottemptend"),
     horizontal_advection |-> Str("T_advection_xy"),
     vertical_advection |-> Str("Th_tendency_vert_remap"),
     boundary_forcing |-> Str("boundary_forcing_heat_tendency"),
     vertical_diffusion |-> Str("opottempdiff"),
     neutral_diffusion |-> Str("opottemppmdiff"),
     frazil_ice |-> Str("frazil_heat_tendency"),
     geothermal |-> Str("internal_heat_heat_tendency")]

processes_salt_dict ==
    [Eulerian_tendency |-> Str("osalttend"),
     horizontal_advection |-> Str("S_advection_xy"),
     vertical_advection |-> Str("Sh_tendency_vert_remap"),
     boundary_forcing |-> Str("boundary_forcing_salt_tendency"),
     vertical_diffusion |-> Str("osaltdiff"),
     neutral_diffusion |-> Str("osaltpmdiff"),
     frazil_ice |-> None,
     geothermal |-> None]

lambdas_dict ==
    [heat |-> <<"theta">>,
     salt |-> <<"salt">>,
     density |-> <<"sigma0", "sigma1", "sigma2", "sigma3", "sigma4">>]

Range(seq) == {seq[i] : i \in DOMAIN seq}

\* lambdas(lambda_name), lines 87-91: the names of one family, as a set; the
\* empty set stands for the None of an unknown family.
lambdas(lambda_name) == IF lambda_name \in DOMAIN lambdas_dict THEN Range(lambdas_dict[lambda_name]) ELSE {}

AllLambdas == UNION {Range(lambdas_dict[k]) : k \in DOMAIN lambdas_dict}

\* getattr(self, f"processes_{component}_dict")
process_dict(component) == IF component = "heat" THEN processes_heat_dict ELSE processes_salt_dict

\* process(tendency, term), lines 94-104: (tendcode, termcode), or None after
\* the warning for a tendency that is neither heat nor salt.
process(tendency, term) ==
    IF tendency = "heat"
    THEN [kind |-> "tuple", tendcode |-> Get(terms_dict, tendency), termcode |-> Get(processes_heat_dict, term)]
    ELSE IF tendency = "salt"
    THEN [kind |-> "tuple", tendcode |-> Get(terms_dict, tendency), termcode |-> Get(processes_salt_dict, term)]
    ELSE None

\* `name in self.ds` for a name that may be None (None is in no dataset).
InDs(self, name) == name.kind = "str" /\ name.s \in DOMAIN self.ds

\* A mutant of processes: the check against the dataset is skipped.
processes_unchecked(self, check) ==
    DOMAIN processes_heat_dict \cup DOMAIN processes_salt_dict

\* processes(check), lines 107-120.
processes(self, check) ==
    LET all == DOMAIN processes_heat_dict \cup DOMAIN processes_salt_dict
    IN IF check
       THEN {proc \in all :
               LET p1 == Get(processes_salt_dict, proc)
                   p2 == Get(processes_heat_dict, proc)
               IN /\ (IsNone(p1) \/ (~IsNone(p1) /\ InDs(self, p1)))
                  /\ (IsNone(p2) \/ (~IsNone(p2) /\ InDs(self, p2)))}
       ELSE all

(***************************************************************************)
(* wmt.py: the tendency assembler                                          *)
(***************************************************************************)
\* self.ds[name]: the field, or KeyError.
DsGet(self, name) == IF name \in DOMAIN self.ds THEN self.ds[name] ELSE Raise("KeyError", name)

\* expand_surface_to_3d(surface, lev_outer): the surface value placed on the
\* first interface, zero on every other interface.
expand_surface_to_3d(surface, lev_outer) ==
    DataArray(surface.name, [k \in DOMAIN lev_outer.data |-> IF k = 1 THEN surface.data[1] ELSE Num(0)], surface.scale)

\* xr.zeros_like(field)
zeros_like(da) == [da EXCEPT !.data = [k \in DOMAIN da.data |-> Num(0)]]

\* The first raised exception among vs, in order, else None.
RECURSIVE FirstRaise(_)
FirstRaise(vs) == IF vs = <<>> THEN None ELSE IF IsRaise(Head(vs)) THEN Head(vs) ELSE FirstRaise(Tail(vs))

\* The record of a boundary term, lines 151-159.
boundary_record(scalar, tend_arr, flux, scalar_in_mass) ==
    Dict([scalar |-> [array |-> scalar],
          tendency |-> [array |-> tend_arr, extensive |-> TRUE, boundary |-> TRUE],
          boundary |-> [flux |-> flux, mass |-> TRUE, scalar_in_mass |-> scalar_in_mass]])

\* A mutant of interior_record: the mass-flux companion of the boundary
\* branch is attached to an interior term too.
interior_record_with_companion(scalar, tend_arr) ==
    Dict([scalar |-> [array |-> scalar],
          tendency |-> [array |-> tend_arr, extensive |-> TRUE, boundary |-> FALSE],
          boundary |-> [flux |-> tend_arr, mass |-> TRUE, scalar_in_mass |-> scalar]])

\* The record of an interior term, lines 160-164.
interior_record(scalar, tend_arr) ==
    Dict([scalar |-> [array |-> scalar],
          tendency |-> [array |-> tend_arr, extensive |-> TRUE, boundary |-> FALSE]])

\* datadict(tendency, term), lines 122-164.
datadict(self, tendency, term) ==
    LET p == process(tendency, term)
    IN IF IsNone(p)
       THEN Raise("TypeError", "cannot unpack non-iterable NoneType object")
       ELSE IF IsNone(p.termcode) \/ ~InDs(self, p.termcode)
       THEN None
       ELSE
         LET termcode == p.termcode.s
             tendcode == p.tendcode.s
             tend_arr == IF tendency = "salt"
                         THEN Scaled(self.ds[termcode], "*1000")
                         ELSE self.ds[termcode]
             wfo == DsGet(self, "wfo")
             lev_outer == DsGet(self, "lev_outer")
             tos == DsGet(self, "tos")
             sos == DsGet(self, "sos")
             scalar == DsGet(self, tendcode)
         IN IF term = "boundary_forcing"
            THEN IF termcode = "boundary_forcing_heat_tendency"
                 THEN LET err == FirstRaise(<<wfo, lev_outer, tos, lev_outer, scalar>>)
                      IN IF IsRaise(err) THEN err
                         ELSE boundary_record(scalar, tend_arr,
                                  Scaled(expand_surface_to_3d(wfo, lev_outer), "*cp"),
                                  expand_surface_to_3d(tos, lev_outer))
                 ELSE IF termcode = "boundary_forcing_salt_tendency"
                 THEN LET err == FirstRaise(<<wfo, lev_outer, sos, lev_outer, scalar>>)
                      IN IF IsRaise(err) THEN err
                         ELSE boundary_record(scalar, tend_arr,
                                  expand_surface_to_3d(wfo, lev_outer),
                                  expand_surface_to_3d(zeros_like(sos), lev_outer))
                 ELSE Raise("ValueError", "termcode not yet supported")
            ELSE IF IsRaise(scalar) THEN scalar
                 ELSE interior_record(scalar, tend_arr)

(***************************************************************************)
(* wmt.py: the equation-of-state adapter                                   *)
(***************************************************************************)
\* A method that may assign attributes of the object returns its value
\* together with vars(self) as the call leaves it.
Out(ret, v) == [ret |-> ret, vars |-> v]

\* setattr(self, name, value)
SetAttr(v, name, value) == [n \in DOMAIN v \cup {name} |-> IF n = name THEN value ELSE v[n]]

With(self, v) == [self EXCEPT !.vars = v]

\* A gsw function applied to fields: the cells of its first argument, tagged
\* with the function.
Ufunc(how, name, arg) == DataArray(name, arg.data, Append(arg.scale, how))

\* The number n of a reference-pressure label sigma<n>.
SigmaIndex(density_str) ==
    CASE density_str = "sigma0" -> 0
      [] density_str = "sigma1" -> 1
      [] density_str = "sigma2" -> 2
      [] density_str = "sigma3" -> 3
      [] density_str = "sigma4" -> 4

\* gsw.sigma<n>(sa, ct): a linear stand-in for the equation of state, denser
\* with salinity and with reference pressure, lighter with temperature.
gsw_sigma(density_str, sa, ct) ==
    DataArray(density_str,
              [k \in DOMAIN sa.data |-> FAdd(FSub(sa.data[k], ct.data[k]), Num(SigmaIndex(density_str)))],
              <<"gsw." \o density_str>>)

\* Line 169-174: self.p.
set_p(self, v) ==
    IF ("alpha" \notin DOMAIN v \/ "beta" \notin DOMAIN v \/ v.teos10) /\ "p" \notin DOMAIN v
    THEN SetAttr(v, "p", Ufunc("gsw.p_from_z", "p", self.ds["lev"]))
    ELSE v

\* Lines 175-183: self.sa under TEOS-10.
set_sa(self, v) ==
    IF v.teos10 /\ "sa" \notin DOMAIN v
    THEN SetAttr(v, "sa", Ufunc("gsw.SA_from_SP", "sa", self.ds["so"]))
    ELSE v

\* Lines 184-187: self.ct under TEOS-10.
set_ct(self, v) ==
    IF v.teos10 /\ "ct" \notin DOMAIN v
    THEN SetAttr(v, "ct", Ufunc("gsw.CT_from_t", "ct", self.ds["thetao"]))
    ELSE v

\* Lines 188-190: without TEOS-10 the dataset's fields are used as they are.
set_sa_ct_plain(self, v) ==
    IF ~v.teos10 /\ ("sa" \notin DOMAIN v \/ "ct" \notin DOMAIN v)
    THEN SetAttr(SetAttr(v, "sa", self.ds["so"]), "ct", self.ds["thetao"])
    ELSE v

\* The attributes p, sa, ct as lines 169-190 leave them.
get_density_state(self) ==
    Bind(set_p(self, self.vars), LAMBDA v1 :
    Bind(set_sa(self, v1), LAMBDA v2 :
    Bind(set_ct(self, v2), LAMBDA v3 :
    set_sa_ct_plain(self, v3))))

\* A mutant of memoize: the coefficient is recomputed on every call.
memoize_always(self, v, name) ==
    SetAttr(v, name, Ufunc("gsw." \o name, name, v.sa))

\* Lines 193-199 (alpha) and 202-208 (beta): the coefficient is assigned
\* only if the object does not have it yet, from the dataset if it is there.
memoize(self, v, name) ==
    IF name \notin DOMAIN v
    THEN IF name \in DOMAIN self.ds
         THEN SetAttr(v, name, self.ds[name])
         ELSE SetAttr(v, name, Ufunc("gsw." \o name, name, v.sa))
    ELSE v

\* Lines 210-237: the density of the label, from the dataset if it is
\* there, computed for sigma0..sigma4, else None.
density_of(self, v, density_str) ==
    IF ~InDs(self, density_str)
    THEN IF density_str.kind = "str" /\ density_str.s \in lambdas("density")
         THEN gsw_sigma(density_str.s, v.sa, v.ct)
         ELSE None
    ELSE self.ds[density_str.s]

\* get_density(density_str), lines 166-237: (alpha, beta, density).
get_density(self, density_str) ==
    Bind(get_density_state(self), LAMBDA v4 :
    Bind(memoize(self, v4, "alpha"), LAMBDA v5 :
    Bind(memoize(self, v5, "beta"), LAMBDA v6 :
    Out([kind |-> "tuple", alpha |-> v6.alpha, beta |-> v6.beta,
         density |-> density_of(self, v6, density_str)], v6))))

(***************************************************************************)
(* wmt.py: the lambda-space transformer                                    *)
(***************************************************************************)
\* Python arithmetic `field <op> constant` or `coefficient * field`: a
\* TypeError when the field operand is None.
Arith(x, factor) ==
    IF IsNone(x)
    THEN Raise("TypeError", "unsupported operand type(s): NoneType")
    ELSE Scaled(x, factor)

\* Lines 252-256 and 258-262: the density tendency of one tracer, None if
\* the process has no record for it.
rho_tend_of(self, tendency, term, factor) ==
    Bind(datadict(self, tendency, term), LAMBDA dd :
    IF IsRaise(dd) THEN dd
    ELSE IF IsNone(dd) THEN None
    ELSE Arith(calc_hlamdot_tendency(self.vars.xgrid, dd), factor))

\* rho_tend(term), lines 239-264: (rho_tend_heat, rho_tend_salt).
rho_tend(self, term) ==
    Bind(IF "alpha" \in DOMAIN self.vars /\ "beta" \in DOMAIN self.vars
         THEN self.vars
         ELSE get_density(self, None).vars, LAMBDA v :
    Bind(With(self, v), LAMBDA s1 :
    Bind(rho_tend_of(s1, "heat", term, "*-(alpha/cp)"), LAMBDA rho_tend_heat :
    IF IsRaise(rho_tend_heat) THEN Out(rho_tend_heat, v)
    ELSE Bind(rho_tend_of(s1, "salt", term, "*beta"), LAMBDA rho_tend_salt :
         IF IsRaise(rho_tend_salt) THEN Out(rho_tend_salt, v)
         ELSE Out([kind |-> "tuple", heat |-> rho_tend_heat, salt |-> rho_tend_salt], v)))))

\* Reading a local that no branch assigned, at the return of line 303.
Unbound == Raise("UnboundLocalError", "local variable 'hlamdot' referenced before assignment")

\* The theta and salt branches of calc_hlamdot_and_lambda, lines 276-288.
calc_tracer_branch(self, tendency, term, factor) ==
    Bind(datadict(self, tendency, term), LAMBDA dd :
    IF IsRaise(dd) THEN Out(dd, self.vars)
    ELSE IF IsNone(dd) THEN Out(Unbound, self.vars)
    ELSE Bind(Arith(calc_hlamdot_tendency(self.vars.xgrid, dd), factor), LAMBDA hlamdot :
         IF IsRaise(hlamdot) THEN Out(hlamdot, self.vars)
         ELSE Out([kind |-> "tuple", hlamdot |-> hlamdot, lam |-> dd.d.scalar.array], self.vars)))

\* The density branch of calc_hlamdot_and_lambda, lines 293-298.
calc_density_branch(self, lambda_name, term) ==
    Bind(rho_tend(self, term), LAMBDA rhos :
    IF IsRaise(rhos.ret) THEN rhos
    ELSE Bind(With(self, rhos.vars), LAMBDA s1 :
         Bind(get_density(s1, Str(lambda_name)), LAMBDA dens :
         Out([kind |-> "tuple",
              hlamdot |-> Dict([heat |-> rhos.ret.heat, salt |-> rhos.ret.salt]),
              lam |-> dens.ret.density],
             dens.vars))))

\* calc_hlamdot_and_lambda(lambda_name, term), lines 266-303: (hlamdot, lam).
calc_hlamdot_and_lambda(self, lambda_name, term) ==
    IF lambda_name = "theta"
    THEN calc_tracer_branch(self, "heat", term, "/(rho_ref*cp)")
    ELSE IF lambda_name = "salt"
    THEN calc_tracer_branch(self, "salt", term, "/rho_ref")
    ELSE IF lambda_name \in lambdas("density")
    THEN calc_density_branch(self, lambda_name, term)
    ELSE Out(Raise("ValueError", "is not a supported lambda."), self.vars)

\* Order on finite cells.
FLe(x, y) == x.n * y.d <= y.n * x.d

FMin(x, y) == IF FLe(x, y) THEN x ELSE y

FMax(x, y) == IF FLe(x, y) THEN y ELSE x

RECURSIVE SeqMin(_)
SeqMin(s) == IF Len(s) = 1 THEN s[1] ELSE FMin(Head(s), SeqMin(Tail(s)))

RECURSIVE SeqMax(_)
SeqMax(s) == IF Len(s) = 1 THEN s[1] ELSE FMax(Head(s), SeqMax(Tail(s)))

\* bin_percentile(lam): edges spanning the observed range of lam.
bin_percentile(lam) == <<SeqMin(lam.data), SeqMax(lam.data)>>

\* np.diff(bins)
np_diff(bins) == [j \in 1..(Len(bins) - 1) |-> FSub(bins[j + 1], bins[j])]

\* xgrid.interp(lam, "Z", boundary="extend"): centres to interfaces, the top
\* and bottom interfaces taking the value of the nearest centre.
grid_interp(lam) ==
    LET n == Len(lam.data)
    IN DataArray(lam.name,
                 [k \in 1..(n + 1) |->
                     IF k = 1 THEN lam.data[1]
                     ELSE IF k = n + 1 THEN lam.data[n]
                     ELSE FDiv(FAdd(lam.data[k - 1], lam.data[k]), Num(2))],
                 lam.scale)

\* The part of layer k's tendency that the conservative remap puts in bin j:
\* proportional to the overlap of the bin with the layer's lambda range; a
\* layer of one lambda value goes whole to the bin holding that value.
remap_share(hk, a, b, lo_edge, hi_edge) ==
    LET lo == FMin(a, b)
        hi == FMax(a, b)
        ov == FSub(FMin(hi, hi_edge), FMax(lo, lo_edge))
    IN IF lo = hi
       THEN IF FLe(lo_edge, lo) /\ ~FLe(hi_edge, lo) THEN hk ELSE Num(0)
       ELSE IF FLe(ov, Num(0)) THEN Num(0)
       ELSE FDiv(FMul(hk, ov), FSub(hi, lo))

\* xgrid.transform(field, "Z", target=bins, target_data=lam_i,
\* method="conservative"): the bin-integrated field.
grid_transform(field, bins, lam_i) ==
    [field EXCEPT !.data =
        [j \in 1..(Len(bins) - 1) |->
            FSum([k \in DOMAIN field.data |->
                    remap_share(field.data[k], lam_i.data[k], lam_i.data[k + 1], bins[j], bins[j + 1])])]]

\* One tendency field remapped and divided by the bin widths, lines 333-341
\* and 348-353.
transform_one(field, bins, lam_i, termcode) ==
    Bind(grid_transform(field, bins, lam_i), LAMBDA t :
    [t EXCEPT !.name = termcode,
              !.data = [j \in DOMAIN t.data |-> FDiv(t.data[j], np_diff(bins)[j])],
              !.scale = Append(@, "/np.diff(bins)")])

\* xr.merge of DataArrays: a Dataset holding each under its name.
merge_arrays(das) == Dataset([n \in {da.name : da \in das} |-> CHOOSE da \in das : da.name = n])

\* Lines 314-354: the remap of a non-null hlamdot onto the bins.
transform_fields(lambda_name, term, hlamdot, lam, edges) ==
    Bind(grid_interp(lam), LAMBDA lam_i :
    IF lambda_name \in lambdas("density")
    THEN merge_arrays({transform_one(hlamdot.d[tend], edges, lam_i, process(tend, term).termcode.s) :
                         tend \in {t \in DOMAIN terms_dict : ~IsNone(hlamdot.d[t])}})
    ELSE transform_one(hlamdot, edges, lam_i,
                       process(IF lambda_name = "salt" THEN "salt" ELSE "heat", term).termcode.s))

\* transform_hlamdot(lambda_name, term, bins), lines 305-354.  bins is a
\* sequence of edges, or None.
transform_hlamdot(self, lambda_name, term, bins) ==
    Bind(calc_hlamdot_and_lambda(self, lambda_name, term), LAMBDA c :
    IF IsRaise(c.ret) THEN c
    ELSE IF IsNone(c.ret.hlamdot) THEN Out(None, c.vars)
    ELSE Out(transform_fields(lambda_name, term, c.ret.hlamdot, c.ret.lam,
                              IF IsNone(bins) THEN bin_percentile(c.ret.lam) ELSE bins.edges),
             c.vars))

(***************************************************************************)
(* wmt.py: the aggregator                                                  *)
(***************************************************************************)
\* `name in container` for a name that may be None.  A DataArray used as a
\* container holds no variable names.
InContainer(c, name) == c.kind = "Dataset" /\ name.kind = "str" /\ name.s \in DOMAIN c.fields

\* Python's sum(das): 0 + das[0] + das[1] + ..., cell by cell.
RECURSIVE FieldSum(_)
FieldSum(das) ==
    IF Len(das) = 1
    THEN [Head(das) EXCEPT !.scale = <<"sum">>]
    ELSE LET rest == FieldSum(Tail(das))
         IN [rest EXCEPT !.data = [k \in DOMAIN rest.data |-> FAdd(Head(das).data[k], rest.data[k])]]

\* A mutant of _sum_terms: a missing addend drops the whole sum.
_sum_terms_all_or_nothing(c0, newterm, terms) ==
    Bind(c0, LAMBDA c :
    Bind(SelectSeq(terms, LAMBDA t : InContainer(c, t)), LAMBDA das :
    IF Len(das) = Len(terms)
    THEN Dataset(SetAttr(c.fields, newterm,
             [FieldSum([i \in DOMAIN das |-> c.fields[das[i].s]]) EXCEPT !.name = newterm]))
    ELSE c))

\* _sum_terms(ds, newterm, terms), lines 382-388: ds with ds[newterm] set to
\* the sum of the terms it holds, if it holds any.
_sum_terms(c0, newterm, terms) ==
    Bind(c0, LAMBDA c :
    Bind(SelectSeq(terms, LAMBDA t : InContainer(c, t)), LAMBDA das :
    IF Len(das) > 0
    THEN Dataset(SetAttr(c.fields, newterm,
             [FieldSum([i \in DOMAIN das |-> c.fields[das[i].s]]) EXCEPT !.name = newterm]))
    ELSE c))

\* The five categories of one component, lines 395-435, in order.
group_component(c0, component) ==
    Bind(process_dict(component), LAMBDA pd :
    Bind(_sum_terms(c0, "external_forcing_" \o component,
                    <<pd["boundary_forcing"], pd["frazil_ice"], pd["geothermal"]>>), LAMBDA c1 :
    Bind(_sum_terms(c1, "diffusion_" \o component,
                    <<pd["vertical_diffusion"], pd["neutral_diffusion"]>>), LAMBDA c2 :
    Bind(_sum_terms(c2, "advection_" \o component,
                    <<pd["horizontal_advection"], pd["vertical_advection"]>>), LAMBDA c3 :
    Bind(_sum_terms(c3, "diabatic_forcing_" \o component,
                    <<Str("external_forcing_" \o component), Str("diffusion_" \o component)>>), LAMBDA c4 :
    _sum_terms(c4, "total_tendency_" \o component,
               <<Str("advection_" \o component), Str("diabatic_forcing_" \o component)>>))))))

\* _group_processes(hlamdot), lines 390-436.
_group_processes(self, hlamdot) ==
    IF IsNone(hlamdot)
    THEN None
    ELSE Bind(group_component(hlamdot, "heat"), LAMBDA c : group_component(c, "salt"))

ProcessOrder ==
    <<"Eulerian_tendency", "horizontal_advection", "vertical_advection", "boundary_forcing",
      "vertical_diffusion", "neutral_diffusion", "frazil_ice", "geothermal">>

Categories == <<"external_forcing", "diffusion", "advection", "diabatic_forcing", "total_tendency">>

\* The loop of lines 442-450 over the processes in procs.
RECURSIVE sum_each_process(_, _)
sum_each_process(c, procs) ==
    IF procs = <<>>
    THEN c
    ELSE sum_each_process(
             _sum_terms(c, Head(procs), <<processes_heat_dict[Head(procs)], processes_salt_dict[Head(procs)]>>),
             Tail(procs))

\* The loop of lines 452-453 over the categories.
RECURSIVE sum_each_category(_, _)
sum_each_category(c, cats) ==
    IF cats = <<>>
    THEN c
    ELSE sum_each_category(
             _sum_terms(c, Head(cats), <<Str(Head(cats) \o "_heat"), Str(Head(cats) \o "_salt")>>),
             Tail(cats))

\* _sum_components(hlamdot, group_processes), lines 438-454.
_sum_components(self, hlamdot, group_processes) ==
    IF IsNone(hlamdot)
    THEN None
    ELSE Bind(sum_each_process(hlamdot, SelectSeq(ProcessOrder, LAMBDA proc : proc \in processes(self, TRUE))),
              LAMBDA c1 : IF group_processes THEN sum_each_category(c1, Categories) ELSE c1)

(***************************************************************************)
(* wmt.py: the public operations                                           *)
(***************************************************************************)
\* len(x) of a result container: the data variables of a Dataset, the first
\* dimension of a DataArray.
PyLen(x) == IF x.kind = "Dataset" THEN Cardinality(DOMAIN x.fields) ELSE Len(x.data)

\* (x * self.ds["areacello"]).sum(["x", "y"])
area_integral(x) ==
    IF x.kind = "Dataset"
    THEN Dataset([n \in DOMAIN x.fields |-> Scaled(x.fields[n], "*areacello.sum(x,y)")])
    ELSE Scaled(x, "*areacello.sum(x,y)")

\* The fields of a result as a map from name to DataArray.
FieldsOf(x) == IF x.kind = "Dataset" THEN x.fields ELSE [n \in {x.name} |-> x]

\* xr.merge of results (DataArrays and Datasets) with distinct names.
merge_results(xs) ==
    Dataset([n \in UNION {DOMAIN FieldsOf(x) : x \in xs} |->
                LET x == CHOOSE x \in xs : n \in DOMAIN FieldsOf(x) IN FieldsOf(x)[n]])

\* transform_hlamdot_and_integrate with a term, lines 370-377.
integrate_term(self, lambda_name, term, bins) ==
    Bind(transform_hlamdot(self, lambda_name, term, bins), LAMBDA t :
    IF IsRaise(t.ret) THEN t
    ELSE IF ~IsNone(t.ret) /\ PyLen(t.ret) > 0
    THEN Out(area_integral(t.ret), t.vars)
    ELSE t)

\* The object after the calls for the terms in order, each leaving its
\* memoized attributes to the next.
RECURSIVE vars_after(_, _, _, _)
vars_after(self, lambda_name, terms, bins) ==
    IF terms = <<>>
    THEN self.vars
    ELSE Bind(self, LAMBDA s :
         Bind(With(s, integrate_term(s, lambda_name, Head(terms), bins).vars), LAMBDA s1 :
         vars_after(s1, lambda_name, Tail(terms), bins)))

\* The loop of lines 363-368 over processes(False), a Python set whose
\* order is not fixed: a call that raises ends the loop, and which raising
\* call comes first depends on the order.
integrate_all_terms(self, lambda_name, bins) ==
    Bind([t \in processes(self, FALSE) |-> integrate_term(self, lambda_name, t, bins)], LAMBDA outs :
    Bind({t \in DOMAIN outs : IsRaise(outs[t].ret)}, LAMBDA raising :
    IF raising # {}
    THEN {outs[t] : t \in raising}
    ELSE {Out(merge_results({outs[t].ret : t \in {u \in DOMAIN outs : ~IsNone(outs[u].ret)}}),
              vars_after(self, lambda_name, ProcessOrder, bins))}))

\* transform_hlamdot_and_integrate(lambda_name, term, bins), lines 356-377:
\* the set of possible outcomes.
transform_hlamdot_and_integrate(self, lambda_name, term, bins) ==
    IF IsNone(term)
    THEN integrate_all_terms(self, lambda_name, bins)
    ELSE {integrate_term(self, lambda_name, term.s, bins)}

\* The collapse of a one-variable Dataset to its DataArray, lines 480-483
\* and 522-525.
collapse(F) ==
    IF F.kind = "Dataset" /\ PyLen(F) = 1
    THEN F.fields[CHOOSE n \in DOMAIN F.fields : TRUE]
    ELSE F

\* Lines 475-483 and 517-525: grouping, summing and the collapse.
group_sum_collapse(self, F, sum_components, group_processes) ==
    Bind(IF group_processes THEN _group_processes(self, F) ELSE F, LAMBDA F1 :
    Bind(IF sum_components THEN _sum_components(self, F1, group_processes) ELSE F1, LAMBDA F2 :
    collapse(F2)))

\* self.F: the class defines no attribute F.
self_F == Raise("AttributeError", "'WaterMassTransformations' object has no attribute 'F'")

\* DataArray.to_dataset()
to_dataset(x) == IF IsDataArray(x) THEN Dataset(FieldsOf(x)) ELSE x

\* map_transformations(lambda_name, term, sum_components, group_processes,
\* bins=...), lines 456-483.
map_transformations(self, lambda_name, term, sum_components, group_processes, bins) ==
    IF IsNone(term)
    THEN IF processes(self, FALSE) # {}
         THEN Out(self_F, self.vars)
         ELSE Out(group_sum_collapse(self, merge_results({}), sum_components, group_processes), self.vars)
    ELSE Bind(transform_hlamdot(self, lambda_name, term.s, bins), LAMBDA t :
         IF IsRaise(t.ret) THEN t
         ELSE Bind(With(self, t.vars), LAMBDA s1 :
              Bind(to_dataset(t.ret), LAMBDA F :
              Out(group_sum_collapse(s1, F, sum_components, group_processes), t.vars))))

\* What integrate_transformations makes of one outcome of
\* transform_hlamdot_and_integrate, lines 516-525.
integrate_finish(self, g, sum_components, group_processes) ==
    IF IsRaise(g.ret)
    THEN g
    ELSE Bind(With(self, g.vars), LAMBDA s1 :
         Out(group_sum_collapse(s1, g.ret, sum_components, group_processes), g.vars))

\* integrate_transformations(lambda_name, term, sum_components=...,
\* group_processes=..., bins=...), lines 485-525: the possible outcomes.
integrate_transformations(self, lambda_name, term, sum_components, group_processes, bins) ==
    {integrate_finish(self, g, sum_components, group_processes) :
        g \in transform_hlamdot_and_integrate(self, lambda_name, term, bins)}

\* isosurface_mean(*args, ...), lines 527-582, up to the call of self.F;
\* nargs is len(args).
isosurface_mean(self, nargs, lambda_name) ==
    IF nargs # 3 /\ nargs # 2
    THEN None
    ELSE IF lambda_name \notin lambdas("density")
            /\ Cardinality({k \in DOMAIN lambdas_dict : lambdas_dict[k][1] = lambda_name}) # 1
    THEN None
    ELSE self_F

(***************************************************************************)
(* Inputs                                                                  *)
(***************************************************************************)
\* Most processes of the taxonomy that have data in one dataset.
MaxProcs == 1

\* Most fields of a result container handed to the aggregator directly.
MaxFields == 3

Cells == {Num(i) : i \in (-MaxVal)..MaxVal}

ProcessNames == DOMAIN processes_heat_dict \cup DOMAIN processes_salt_dict

\* The variable names the two taxonomies map a process to.
VarsOf(proc) ==
    {d[proc].s : d \in {x \in {processes_heat_dict, processes_salt_dict} : ~IsNone(x[proc])}}

ProcVars == UNION {VarsOf(proc) : proc \in ProcessNames}

\* Fields every dataset holds: the two tracers, the coordinates, the area.
BaseVars == {"thetao", "so", "lev", "lev_outer", "lat", "lon", "areacello"}

\* Surface fields of the boundary forcing.
SurfaceVars == {"wfo", "tos", "sos"}

\* The cells of a dataset variable: tendencies take tend, the tracers theta
\* and salt, surface fields one cell, interface coordinates NLev + 1 cells.
FieldData(name, tend, theta, salt) ==
    CASE name \in ProcVars -> tend
      [] name = "thetao" -> theta
      [] name = "so" -> salt
      [] name \in SurfaceVars -> <<Num(1)>>
      [] name = "lev_outer" -> [k \in Outer |-> Num(k - 1)]
      [] OTHER -> [k \in Levels |-> Num(k)]

MakeDs(names, tend, theta, salt) ==
    [n \in names |-> DataArray(n, FieldData(n, tend, theta, salt), <<>>)]

\* The sets of process variables of datasets with data for at most MaxProcs
\* processes (for each, its heat variable, its salt variable or both).
ProcVarSets ==
    {P \in SUBSET ProcVars : Cardinality({proc \in ProcessNames : VarsOf(proc) \cap P # {}}) <= MaxProcs}

DefaultColumn == [k \in Levels |-> Num(k)]

\* Datasets of the operations' specification: with or without the surface
\* fields, one column of data.
ApiDatasets ==
    {MakeDs(BaseVars \cup S \cup P, [k \in Levels |-> Num(1)], DefaultColumn, DefaultColumn) :
        S \in {{}, SurfaceVars}, P \in ProcVarSets}

\* __init__, lines 23-53: alpha and beta are attributes only if given.
Construct(alpha_given, beta_given, teos10) ==
    LET v0 == [teos10 |-> teos10,
               xgrid |-> Grid(FALSE, [k \in Levels |-> Num(1)])]
        v1 == IF alpha_given THEN SetAttr(v0, "alpha", [kind |-> "float", name |-> "alpha"]) ELSE v0
        v2 == IF beta_given THEN SetAttr(v1, "beta", [kind |-> "float", name |-> "beta"]) ELSE v1
    IN v2

ApiObjects == {Construct(FALSE, FALSE, TRUE), Construct(TRUE, TRUE, FALSE)}

Tendencies == {"heat", "salt", "density"}

TermArgs == ProcessNames \cup {"mixing"}

LambdaArgs == AllLambdas \cup {"rho"}

Bins(edges) == [kind |-> "bins", edges |-> edges]

BinArgs == {None, Bins(<<Num(0), Num(1), Num(2)>>)}

Self == [ds |-> ds, vars |-> obj]

(***************************************************************************)
(* The operations as actions.  The client is single-threaded: it makes a   *)
(* call on the idle object, the call runs to its outcome (a value or a     *)
(* raised exception), and the client takes the outcome before its next     *)
(* call.  call and result hold the last call and its outcome.              *)
(***************************************************************************)
Idle == call.op = "idle"

Datadict(tendency, term) ==
    /\ Idle
    /\ call' = [op |-> "datadict", tendency |-> tendency, term |-> term]
    /\ result' = datadict(Self, tendency, term)
    /\ UNCHANGED <<ds, obj>>

CalcHlamdotAndLambda(lambda_name, term) ==
    Idle /\ LET out == calc_hlamdot_and_lambda(Self, lambda_name, term)
    IN /\ call' = [op |-> "calc_hlamdot_and_lambda", lambda_name |-> lambda_name, term |-> term]
       /\ result' = out.ret
       /\ obj' = out.vars
       /\ UNCHANGED ds

TransformHlamdot(lambda_name, term, bins) ==
    Idle /\ LET out == transform_hlamdot(Self, lambda_name, term, bins)
    IN /\ call' = [op |-> "transform_hlamdot", lambda_name |-> lambda_name, term |-> term, bins |-> bins]
       /\ result' = out.ret
       /\ obj' = out.vars
       /\ UNCHANGED ds

TransformHlamdotAndIntegrate(lambda_name, term, bins) ==
    Idle /\ \E out \in transform_hlamdot_and_integrate(Self, lambda_name, term, bins) :
       /\ call' = [op |-> "transform_hlamdot_and_integrate", lambda_name |-> lambda_name,
                   term |-> term, bins |-> bins]
       /\ result' = out.ret
       /\ obj' = out.vars
       /\ UNCHANGED ds

IntegrateTransformations(lambda_name, term, sum_components, group_processes) ==
    Idle /\ \E out \in integrate_transformations(Self, lambda_name, term, sum_components, group_processes, None) :
       /\ call' = [op |-> "integrate_transformations", lambda_name |-> lambda_name, term |-> term,
                   sum_components |-> sum_components, group_processes |-> group_processes]
       /\ result' = out.ret
       /\ obj' = out.vars
       /\ UNCHANGED ds

MapTransformations(lambda_name, term, sum_components, group_processes) ==
    Idle /\ LET out == map_transformations(Self, lambda_name, term, sum_components, group_processes, None)
    IN /\ call' = [op |-> "map_transformations", lambda_name |-> lambda_name, term |-> term,
                   sum_components |-> sum_components, group_processes |-> group_processes]
       /\ result' = out.ret
       /\ obj' = out.vars
       /\ UNCHANGED ds

IsosurfaceMean(nargs, lambda_name) ==
    /\ Idle
    /\ call' = [op |-> "isosurface_mean", nargs |-> nargs, lambda_name |-> lambda_name]
    /\ result' = isosurface_mean(Self, nargs, lambda_name)
    /\ UNCHANGED <<ds, obj>>

\* The client takes the outcome; the object keeps its attributes.
Return ==
    /\ ~Idle
    /\ call' = [op |-> "idle"]
    /\ result' = None
    /\ UNCHANGED <<ds, obj>>

\* A term argument of the operations that take an optional term.
OptTerms == {None} \cup {Str(t) : t \in TermArgs}

Init ==
    /\ ds \in ApiDatasets
    /\ obj \in ApiObjects
    /\ call = [op |-> "idle"]
    /\ result = None

Next ==
    \/ \E tendency \in Tendencies, term \in TermArgs : Datadict(tendency, term)
    \/ \E l \in LambdaArgs, term \in TermArgs : CalcHlamdotAndLambda(l, term)
    \/ \E l \in LambdaArgs, term \in TermArgs, bins \in BinArgs : TransformHlamdot(l, term, bins)
    \/ \E l \in LambdaArgs, term \in OptTerms : TransformHlamdotAndIntegrate(l, term, None)
    \/ \E l \in LambdaArgs, term \in OptTerms, sc \in BOOLEAN, gp \in BOOLEAN :
          IntegrateTransformations(l, term, sc, gp)
    \/ \E l \in LambdaArgs, term \in OptTerms, sc \in BOOLEAN, gp \in BOOLEAN :
          MapTransformations(l, term, sc, gp)
    \/ \E nargs \in 1..3, l \in LambdaArgs : IsosurfaceMean(nargs, l)
    \/ Return

Spec == Init /\ [][Next]_vars

\* The tendency assembler alone: the client calls datadict only.
NextRecords ==
    \/ \E tendency \in Tendencies, term \in TermArgs : Datadict(tendency, term)
    \/ Return

SpecRecords == Init /\ [][NextRecords]_vars

(***************************************************************************)
(* compute.py called directly, on every small grid, flux and record        *)
(***************************************************************************)
Thicknesses == {Num(i) : i \in 0..(MaxVal + 1)}

Grids == {Grid(z, h) : z \in BOOLEAN, h \in [Levels -> Thicknesses]}

Fluxes == {DataArray("Jlam", J, <<>>) : J \in [Outer -> Cells]}

Tends == {DataArray("hlamdot", T, <<>>) : T \in [Levels -> Cells]}

\* Records: with a precomputed tendency, with an interfacial flux, with
\* both, and the two shapes datadict builds.
Records ==
    {Dict([layer_integrated_tendency |-> T]) : T \in Tends}
    \cup {Dict([interfacial_flux |-> J]) : J \in Fluxes}
    \cup {Dict([layer_integrated_tendency |-> T, interfacial_flux |-> J]) :
             T \in {DataArray("hlamdot", [k \in Levels |-> Num(1)], <<>>)}, J \in Fluxes}
    \cup {interior_record(DataArray("thetao", DefaultColumn, <<>>), T) : T \in Tends}
    \cup {boundary_record(DataArray("thetao", DefaultColumn, <<>>), T,
                          DataArray("wfo", [k \in Outer |-> Num(0)], <<"*cp">>),
                          DataArray("tos", [k \in Outer |-> Num(0)], <<>>)) : T \in Tends}

HlamdotFromJlam(grid, Jlam) ==
    /\ Idle
    /\ call' = [op |-> "hlamdot_from_Jlam", grid |-> grid, Jlam |-> Jlam]
    /\ result' = DataArray("hlamdot", hlamdot_from_Jlam(grid, Jlam.data, "Z"), <<>>)
    /\ UNCHANGED <<ds, obj>>

CalcHlamdotTendency(grid, record) ==
    /\ Idle
    /\ call' = [op |-> "calc_hlamdot_tendency", grid |-> grid, datadict |-> record]
    /\ result' = calc_hlamdot_tendency(grid, record)
    /\ UNCHANGED <<ds, obj>>

InitConv ==
    /\ ds = MakeDs(BaseVars, DefaultColumn, DefaultColumn, DefaultColumn)
    /\ obj = Construct(FALSE, FALSE, TRUE)
    /\ call = [op |-> "idle"]
    /\ result = None

NextConv ==
    \/ \E grid \in Grids, Jlam \in Fluxes : HlamdotFromJlam(grid, Jlam)
    \/ \E grid \in Grids, record \in Records : CalcHlamdotTendency(grid, record)
    \/ Return

SpecConv == InitConv /\ [][NextConv]_vars

(***************************************************************************)
(* The aggregator called directly, on every small result container         *)
(***************************************************************************)
VarOrder ==
    <<"opottemptend", "T_advection_xy", "Th_tendency_vert_remap", "boundary_forcing_heat_tendency",
      "opottempdiff", "opottemppmdiff", "frazil_heat_tendency", "internal_heat_heat_tendency",
      "osalttend", "S_advection_xy", "Sh_tendency_vert_remap", "boundary_forcing_salt_tendency",
      "osaltdiff", "osaltpmdiff">>

\* The cell of the container field of a variable: a power of two of its own,
\* so that a sum of fields tells which fields were added, and how often.
Weight(name) == 2 ^ ((CHOOSE i \in DOMAIN VarOrder : VarOrder[i] = name) - 1)

\* A result container with the fields named: what transform_hlamdot returns
\* for those variables (one bin).
Container(names) == Dataset([n \in names |-> DataArray(n, <<Num(Weight(n))>>, <<>>)])

\* Datasets with at most MaxFields process variables.
GroupDatasets ==
    {MakeDs(BaseVars \cup P, DefaultColumn, DefaultColumn, DefaultColumn) :
        P \in {Q \in SUBSET ProcVars : Cardinality(Q) <= MaxFields}}

\* The containers a dataset can give: fields of variables it holds.
ContainersOf(d) == {Container(N) : N \in SUBSET (DOMAIN d \cap ProcVars)}

GroupProcesses(c) ==
    /\ Idle
    /\ call' = [op |-> "_group_processes", hlamdot |-> c]
    /\ result' = _group_processes(Self, c)
    /\ UNCHANGED <<ds, obj>>

\* _sum_components on a container as it is (grouped = FALSE) or as
\* _group_processes leaves it.
SumComponents(c, grouped, group_processes) ==
    /\ Idle
    /\ call' = [op |-> "_sum_components",
                hlamdot |-> IF grouped THEN _group_processes(Self, c) ELSE c,
                group_processes |-> group_processes]
    /\ result' = _sum_components(Self, IF grouped THEN _group_processes(Self, c) ELSE c, group_processes)
    /\ UNCHANGED <<ds, obj>>

InitGroup ==
    /\ ds \in GroupDatasets
    /\ obj = Construct(FALSE, FALSE, TRUE)
    /\ call = [op |-> "idle"]
    /\ result = None

NextGroup ==
    \/ \E c \in ContainersOf(ds) \cup {None} : GroupProcesses(c)
    \/ \E c \in ContainersOf(ds) \cup {None}, grouped \in BOOLEAN, gp \in BOOLEAN : SumComponents(c, grouped, gp)
    \/ Return

SpecGroup == InitGroup /\ [][NextGroup]_vars

(***************************************************************************)
(* The equation-of-state helper and its callers on one object, for every   *)
(* way of constructing it                                                  *)
(***************************************************************************)
\* Datasets with or without coefficient and density fields of their own,
\* and without process variables, with those of an interior process or with
\* those of the boundary forcing and its surface fields.
DensityDatasets ==
    {MakeDs(BaseVars \cup E \cup P, [k \in Levels |-> Num(1)], DefaultColumn, DefaultColumn) :
        E \in SUBSET {"alpha", "beta", "sigma0"},
        P \in {{}, VarsOf("Eulerian_tendency"), VarsOf("boundary_forcing") \cup SurfaceVars}}

\* Objects constructed with or without alpha, with or without beta, with
\* or without TEOS-10.
DensityObjects == {Construct(a, b, t) : a \in BOOLEAN, b \in BOOLEAN, t \in BOOLEAN}

\* Density labels: omitted, computed or in the dataset, unsupported.
DensityArgs == {None, Str("sigma0"), Str("sigma3"), Str("rho")}

DensityTerms == {"Eulerian_tendency", "boundary_forcing", "geothermal", "mixing"}

DensityLambdas == {"theta", "sigma0", "sigma3", "rho"}

GetDensity(density_str) ==
    Idle /\ LET out == get_density(Self, density_str)
    IN /\ call' = [op |-> "get_density", density_str |-> density_str]
       /\ result' = out.ret
       /\ obj' = out.vars
       /\ UNCHANGED ds

RhoTend(term) ==
    Idle /\ LET out == rho_tend(Self, term)
    IN /\ call' = [op |-> "rho_tend", term |-> term]
       /\ result' = out.ret
       /\ obj' = out.vars
       /\ UNCHANGED ds

InitDensity ==
    /\ ds \in DensityDatasets
    /\ obj \in DensityObjects
    /\ call = [op |-> "idle"]
    /\ result = None

NextDensity ==
    \/ \E density_str \in DensityArgs : GetDensity(density_str)
    \/ \E term \in DensityTerms : RhoTend(term)
    \/ \E l \in DensityLambdas, term \in DensityTerms : CalcHlamdotAndLambda(l, term)
    \/ \E l \in DensityLambdas, term \in DensityTerms, bins \in BinArgs : TransformHlamdot(l, term, bins)
    \/ Return

SpecDensity == InitDensity /\ [][NextDensity]_vars

(***************************************************************************)
(* Properties of the operations (specification Spec)                       *)
(***************************************************************************)
\* The tracers whose tendencies feed the transformation along a lambda.
RelevantTracers(lambda_name) ==
    IF lambda_name = "theta" THEN {"heat"}
    ELSE IF lambda_name = "salt" THEN {"salt"}
    ELSE {"heat", "salt"}

\* The relevant tracers for which the process has an interior record.
InteriorTracers(lambda_name, term) ==
    {t \in RelevantTracers(lambda_name) :
        datadict(Self, t, term).kind = "dict" /\ ~datadict(Self, t, term).d.tendency.boundary}

\* The process has no record for any relevant tracer: it does not apply to
\* the tracer, or its variable is not in the dataset.
NoRecord(lambda_name, term) ==
    \A t \in RelevantTracers(lambda_name) : IsNone(datadict(Self, t, term))

\* The lambda field of a supported lambda name.
LamOf(lambda_name) ==
    IF lambda_name = "theta" THEN ds["thetao"]
    ELSE IF lambda_name = "salt" THEN ds["so"]
    ELSE get_density(Self, Str(lambda_name)).ret.density

\* The bin edges a call of transform_hlamdot uses.
EdgesOf(lambda_name, bins) == IF IsNone(bins) THEN bin_percentile(LamOf(lambda_name)) ELSE bins.edges

\* Sum over the bins of (transformed field x bin width).
BinIntegral(field, edges) ==
    FSum([j \in DOMAIN field.data |-> FMul(field.data[j], np_diff(edges)[j])])

IsContainer(v) == v.kind \in {"DataArray", "Dataset"}

\* C1: for a process with an interior tendency record, transform_hlamdot
\* returns fields that conserve the vertical integral: for each tracer's
\* field, the sum over depth of the layer-integrated tendency equals the sum
\* over the bins of the transformed field times the bin width.
C1_Conservation ==
    (/\ call.op = "transform_hlamdot"
     /\ call.lambda_name \in AllLambdas
     /\ call.term # "boundary_forcing"
     /\ InteriorTracers(call.lambda_name, call.term) # {})
    => /\ IsContainer(result)
       /\ \A t \in InteriorTracers(call.lambda_name, call.term) :
            LET termcode == process(t, call.term).termcode.s
            IN /\ termcode \in DOMAIN FieldsOf(result)
               /\ BinIntegral(FieldsOf(result)[termcode], EdgesOf(call.lambda_name, call.bins))
                    = FSum(ds[termcode].data)

\* C2: for a supported lambda and a process without a record for any
\* relevant tracer, calc_hlamdot_and_lambda yields a null tendency and
\* transform_hlamdot returns null; neither raises nor returns a container.
C2_NullForInapplicable ==
    (/\ call.op \in {"calc_hlamdot_and_lambda", "transform_hlamdot"}
     /\ call.lambda_name \in AllLambdas
     /\ NoRecord(call.lambda_name, call.term))
    => IF call.op = "transform_hlamdot"
       THEN IsNone(result)
       ELSE result.kind = "tuple" /\ IsNone(result.hlamdot)

LambdaOps ==
    {"calc_hlamdot_and_lambda", "transform_hlamdot", "transform_hlamdot_and_integrate",
     "integrate_transformations", "map_transformations", "isosurface_mean"}

\* C5: an operation that takes a lambda name ends in a raised configuration
\* error (ValueError) when the name is not a supported lambda; isosurface_mean
\* is taken with a valid argument count.
C5_UnsupportedLambdaRaises ==
    (/\ call.op \in LambdaOps
     /\ call.lambda_name \notin AllLambdas
     /\ call.op = "isosurface_mean" => call.nargs \in {2, 3})
    => IsRaise(result) /\ result.exc = "ValueError"

\* C10: for a supported lambda, integrate_transformations and
\* map_transformations return a DataArray when a term is given and
\* sum_components is set, and a Dataset when the term is omitted or
\* sum_components is not set.
C10_ReturnKind ==
    (/\ call.op \in {"integrate_transformations", "map_transformations"}
     /\ call.lambda_name \in AllLambdas)
    => IF ~IsNone(call.term) /\ call.sum_components
       THEN IsDataArray(result)
       ELSE result.kind = "Dataset"

\* The variables of the dataset that the taxonomy maps a process to, for
\* the tracers relevant to a lambda: the fields a merge over the processes
\* of the dataset holds.
FieldsOfDataset(lambda_name) ==
    {Get(process_dict(t), proc).s :
        t \in RelevantTracers(lambda_name),
        proc \in {q \in ProcessNames : \E u \in RelevantTracers(lambda_name) : InDs(Self, Get(process_dict(u), q))}}
    \cap DOMAIN ds

\* C11: with the term omitted, transform_hlamdot_and_integrate and
\* map_transformations (sum_components and group_processes not set) both
\* complete and return the merge of the one-process results over exactly
\* the processes whose variables the dataset holds, so both return the
\* same set of fields.
C11_MergeOverProcesses ==
    (/\ call.op \in {"transform_hlamdot_and_integrate", "map_transformations"}
     /\ call.lambda_name \in AllLambdas
     /\ IsNone(call.term)
     /\ call.op = "map_transformations" => ~call.sum_components /\ ~call.group_processes)
    => /\ IsContainer(result)
       /\ DOMAIN FieldsOf(result) = FieldsOfDataset(call.lambda_name)

\* C14: isosurface_mean with valid arguments on a dataset without usable
\* time-interval information (no time_bounds, no time_bnds, no calendar)
\* reports the condition and returns null; it neither raises nor returns a
\* mean.
C14_NullWithoutTimeInfo ==
    (/\ call.op = "isosurface_mean"
     /\ call.nargs \in {2, 3}
     /\ call.lambda_name \in AllLambdas
     /\ DOMAIN ds \cap {"time", "time_bounds", "time_bnds"} = {})
    => IsNone(result)

(***************************************************************************)
(* Properties of the tendency assembler (specification SpecRecords)        *)
(***************************************************************************)
\* The taxonomy maps (tracer, process) to a variable of the dataset.
Mapped(tendency, term) ==
    /\ tendency \in {"heat", "salt"}
    /\ InDs(Self, Get(process_dict(tendency), term))

\* C3: datadict returns null exactly when the taxonomy maps the pair to no
\* variable or the variable is not in the dataset, and a tendency record in
\* every other case; it never raises for a pair that does not apply.
C3_DatadictNullOrRecord ==
    call.op = "datadict"
    => IF Mapped(call.tendency, call.term) THEN result.kind = "dict" ELSE IsNone(result)

\* C4: a record of datadict is flagged boundary if and only if it carries
\* the mass-flux companion (a non-null flux, the mass flag, the scalar the
\* mass flux carries); an interior record carries none.
C4_BoundaryIffCompanion ==
    (call.op = "datadict" /\ result.kind = "dict")
    => /\ result.d.tendency.boundary <=> "boundary" \in DOMAIN result.d
       /\ "boundary" \in DOMAIN result.d
            => /\ IsDataArray(result.d.boundary.flux)
               /\ result.d.boundary.mass
               /\ IsDataArray(result.d.boundary.scalar_in_mass)

\* C4 happens: datadict has returned a boundary record.
C4_Witness ==
    /\ call.op = "datadict"
    /\ result.kind = "dict"
    /\ result.d.tendency.boundary
    /\ "boundary" \in DOMAIN result.d

(***************************************************************************)
(* Properties of compute.py (specification SpecConv)                       *)
(***************************************************************************)
\* C6: hlamdot_from_Jlam returns exactly 0 in every cell of zero thickness,
\* for every finite flux and both kinds of grid, and the negated vertical
\* difference of the flux in every cell of non-zero thickness.
C6_ZeroOnZeroThickness ==
    call.op = "hlamdot_from_Jlam"
    => \A k \in Levels :
         IF IsZero(call.grid.h[k])
         THEN result.data[k] = Num(0)
         ELSE result.data[k] = FSub(call.Jlam.data[k], call.Jlam.data[k + 1])

\* C7: calc_hlamdot_tendency returns the record's precomputed tendency
\* unchanged when the record carries one; for every other record it returns
\* a tendency, the one hlamdot_from_Jlam gives for the interfacial flux.
C7_TendencyElseConvergence ==
    call.op = "calc_hlamdot_tendency"
    => IF "layer_integrated_tendency" \in DOMAIN call.datadict.d
       THEN result = call.datadict.d["layer_integrated_tendency"]
       ELSE /\ IsDataArray(result)
            /\ "interfacial_flux" \in DOMAIN call.datadict.d
                 => result.data = hlamdot_from_Jlam(call.grid, call.datadict.d["interfacial_flux"].data, "Z")

(***************************************************************************)
(* Properties of the aggregator (specification SpecGroup)                  *)
(***************************************************************************)
\* The sum of the (one-bin) fields of a container named in names.
RECURSIVE SumFields(_, _)
SumFields(c, names) ==
    IF names = {}
    THEN Num(0)
    ELSE LET n == CHOOSE x \in names : TRUE
         IN FAdd(c.fields[n].data[1], SumFields(c, names \ {n}))

\* What the container held is still there, unchanged.
KeepsFields(before, after) ==
    \A n \in DOMAIN before.fields :
        n \in DOMAIN after.fields /\ after.fields[n].data = before.fields[n].data

\* The field named is in the container exactly when one of its addends is,
\* and is then the sum of the addends the container holds.
IsSumOfPresent(c, name, addends) ==
    LET present == addends \cap DOMAIN c.fields
    IN IF present = {}
       THEN name \notin DOMAIN c.fields
       ELSE name \in DOMAIN c.fields /\ c.fields[name].data = <<SumFields(c, present)>>

\* The categories of a component with their addends.
CategoryAddends(component) ==
    LET v(proc) == VarsOf(proc) \cap Range([i \in DOMAIN VarOrder |->
                       IF (component = "heat") = (i <= 8) THEN VarOrder[i] ELSE "lev"])
    IN {<<"external_forcing_" \o component, v("boundary_forcing") \cup v("frazil_ice") \cup v("geothermal")>>,
        <<"diffusion_" \o component, v("vertical_diffusion") \cup v("neutral_diffusion")>>,
        <<"advection_" \o component, v("horizontal_advection") \cup v("vertical_advection")>>,
        <<"diabatic_forcing_" \o component, {"external_forcing_" \o component, "diffusion_" \o component}>>,
        <<"total_tendency_" \o component, {"advection_" \o component, "diabatic_forcing_" \o component}>>}

\* C8: after _group_processes, for each component each category field is the
\* sum of those of its addends that the container holds, and a category none
\* of whose addends is held is not added; the fields held before are kept.
C8_CategorySums ==
    (call.op = "_group_processes" /\ ~IsNone(call.hlamdot))
    => /\ result.kind = "Dataset"
       /\ KeepsFields(call.hlamdot, result)
       /\ \A component \in {"heat", "salt"} : \A ca \in CategoryAddends(component) :
            IsSumOfPresent(result, ca[1], ca[2])

\* C8 happens: two of the three addends of external_forcing_heat are held
\* and summed, diffusion_heat has no addend, and the sums built on them exist.
C8_Witness ==
    /\ call.op = "_group_processes"
    /\ result.kind = "Dataset"
    /\ {"boundary_forcing_heat_tendency", "frazil_heat_tendency"} \subseteq DOMAIN call.hlamdot.fields
    /\ "internal_heat_heat_tendency" \notin DOMAIN call.hlamdot.fields
    /\ "external_forcing_heat" \in DOMAIN result.fields
    /\ "diffusion_heat" \notin DOMAIN result.fields
    /\ "total_tendency_heat" \in DOMAIN result.fields

\* The category fields across components, when group_processes is set.
CategoriesSummed(before, after, group_processes) ==
    \A i \in DOMAIN Categories :
        IF group_processes
        THEN IsSumOfPresent([after EXCEPT !.fields = [n \in DOMAIN before.fields \cup (DOMAIN after.fields \cap {Categories[i]}) |-> after.fields[n]]],
                            Categories[i], {Categories[i] \o "_heat", Categories[i] \o "_salt"})
        ELSE Categories[i] \notin DOMAIN after.fields

\* C9 as stated: _sum_components adds a field named after the process, the
\* heat field plus the salt field, for each process with a variable in both
\* taxonomies; a process with a variable in one taxonomy only (frazil_ice,
\* geothermal) gets no combined field; with group_processes set each
\* category gets the sum of its heat and salt fields.
C9_AsStated ==
    (call.op = "_sum_components" /\ ~IsNone(call.hlamdot))
    => /\ result.kind = "Dataset"
       /\ \A proc \in ProcessNames :
            IF Cardinality(VarsOf(proc)) = 2
            THEN VarsOf(proc) \subseteq DOMAIN call.hlamdot.fields
                   => proc \in DOMAIN result.fields
                      /\ result.fields[proc].data = <<SumFields(call.hlamdot, VarsOf(proc))>>
            ELSE proc \notin DOMAIN result.fields
       /\ CategoriesSummed(call.hlamdot, result, call.group_processes)

\* C9 amended: _sum_components adds a field named after the process for each
\* process all of whose variables are in the dataset and one of whose fields
\* is in the container: the sum of its heat and salt fields held, which for
\* frazil_ice and geothermal is the heat field alone; no other process gets
\* a field; with group_processes set each category gets the sum of those of
\* its heat and salt fields that are held; the fields held before are kept.
C9_ProcessSums ==
    (call.op = "_sum_components" /\ ~IsNone(call.hlamdot))
    => /\ result.kind = "Dataset"
       /\ KeepsFields(call.hlamdot, result)
       /\ \A proc \in ProcessNames :
            IF VarsOf(proc) \subseteq DOMAIN ds
            THEN IsSumOfPresent([result EXCEPT !.fields = [n \in DOMAIN call.hlamdot.fields \cup (DOMAIN result.fields \cap {proc}) |-> result.fields[n]]],
                                proc, VarsOf(proc))
            ELSE proc \notin DOMAIN result.fields
       /\ CategoriesSummed(call.hlamdot, result, call.group_processes)

\* C9 happens: frazil_ice gets a combined field, boundary_forcing the sum of
\* its heat and salt fields, and the categories are summed across components.
C9_Witness ==
    /\ call.op = "_sum_components"
    /\ call.group_processes
    /\ result.kind = "Dataset"
    /\ {"frazil_heat_tendency", "boundary_forcing_heat_tendency", "boundary_forcing_salt_tendency"}
          \subseteq DOMAIN call.hlamdot.fields
    /\ {"frazil_ice", "boundary_forcing", "external_forcing"} \subseteq DOMAIN result.fields

(***************************************************************************)
(* Properties of the equation-of-state helper (specification SpecDensity)  *)
(***************************************************************************)
\* A step leaves a coefficient the object has as it is.
KeepsCoefficient(name) ==
    name \in DOMAIN obj => name \in DOMAIN obj' /\ obj'[name] = obj[name]

\* get_density returns the coefficients the object holds.
ReturnsHeldCoefficients ==
    (call.op = "get_density" /\ result.kind = "tuple")
    => result.alpha = obj.alpha /\ result.beta = obj.beta

\* C12: over any sequence of get_density, rho_tend, calc_hlamdot_and_lambda
\* and transform_hlamdot calls on one object, a coefficient (alpha, beta)
\* the object has, from the constructor or from the first computation, is
\* never overwritten, and every get_density returns the value held.
C12_CoefficientsWrittenOnce ==
    /\ [][KeepsCoefficient("alpha") /\ KeepsCoefficient("beta")]_vars
    /\ []ReturnsHeldCoefficients

\* C12 happens: a get_density on an object constructed with alpha and
\* without beta has computed beta, stored it, and returned the
\* constructor's alpha.
C12_Witness ==
    /\ call.op = "get_density"
    /\ result.kind = "tuple"
    /\ obj.alpha.kind = "float"
    /\ obj.beta.kind = "DataArray"
    /\ result.alpha = obj.alpha
    /\ result.beta = obj.beta

\* C13: get_density with a label that is neither in the dataset nor one of
\* sigma0..sigma4 raises a configuration error (ValueError); it does not
\* return a result with a null density.
C13_UnsupportedLabelRaises ==
    (/\ call.op = "get_density"
     /\ call.density_str.kind = "str"
     /\ call.density_str.s \notin DOMAIN ds
     /\ call.density_str.s \notin Range(lambdas_dict["density"]))
    => IsRaise(result) /\ result.exc = "ValueError"

\* C15: every record datadict returns for the term of a rho_tend or
\* calc_hlamdot_and_lambda call is accepted by calc_hlamdot_tendency, which
\* returns a non-null tendency for it, and the call does no arithmetic on a
\* null tendency (it does not end in a TypeError).
C15_RecordsAccepted ==
    (/\ call.op \in {"rho_tend", "calc_hlamdot_and_lambda"}
     /\ call.op = "calc_hlamdot_and_lambda" => call.lambda_name \in AllLambdas)
    => /\ \A t \in {"heat", "salt"} :
            datadict(Self, t, call.term).kind = "dict"
            => IsDataArray(calc_hlamdot_tendency(obj.xgrid, datadict(Self, t, call.term)))
       /\ ~(IsRaise(result) /\ result.exc = "TypeError")

====
